---------------------------- MODULE Spec2Model ----------------------------
(***************************************************************************)
(* Model of pyhatchbabyrest/pyhatchbabyrestasync.py: the scoped connection *)
(* guard SaveConnectBleakClient, the device session PyHatchBabyRestAsync   *)
(* (discovery, cached transport handle, status refresh/decoding, command   *)
(* encoding and dispatch).                                                 *)
(*                                                                         *)
(* The session is used by one caller that serialises its calls, so every   *)
(* public coroutine is one action.  The transport (bleak) is external: its *)
(* answers are inputs of the action (the "oracle" o): which devices        *)
(* advertise, which buffers the reads return, and which awaited call, if   *)
(* any, raises or is cancelled.  Each action records what it did in the    *)
(* history variables lastOp, err, log and scopes.                          *)
(*                                                                         *)
(* Modelling assumptions about the transport: connect() leaves the handle  *)
(* connected when it returns normally and changes nothing when it raises;  *)
(* disconnect() always completes; a failed read or write does not drop the *)
(* link; the link is not lost spontaneously.                               *)
(***************************************************************************)
EXTENDS Integers, Sequences, FiniteSets, TLC

(***************************************************************************)
(* Bounds of the model.                                                    *)
(***************************************************************************)
\* devices 1..NumDevices exist in the world; odd ones are Hatch devices
NumDevices == 2

(***************************************************************************)
(* Text: a string is a sequence of one-character strings.                  *)
(***************************************************************************)
HexChars == <<"0", "1", "2", "3", "4", "5", "6", "7",
              "8", "9", "a", "b", "c", "d", "e", "f">>

HexDigit(d) == HexChars[d + 1]

DigitOf(c) == CHOOSE d \in 0..15 : HexChars[d + 1] = c

\* the hexadecimal digits of n >= 0, most significant first, no leading zero
RECURSIVE HexDigits(_)
HexDigits(n) == IF n < 16 THEN <<HexDigit(n)>>
                ELSE Append(HexDigits(n \div 16), HexDigit(n % 16))

\* hex(x) for x >= 0: "0x" and the digits
Hex(x) == <<"0", "x">> \o HexDigits(x)

\* "{:02x}".format(n) for n >= 0: at least two digits, zero padded
Fmt02x(n) == IF n < 16 THEN <<"0">> \o HexDigits(n) ELSE HexDigits(n)

RECURSIVE ParseHexDigits(_)
ParseHexDigits(ds) ==
    IF Len(ds) = 0 THEN 0
    ELSE 16 * ParseHexDigits(SubSeq(ds, 1, Len(ds) - 1)) + DigitOf(ds[Len(ds)])

\* int(x, 16) of a string produced by hex(): the "0x" prefix is accepted
IntBase16(str) ==
    IF Len(str) >= 2 /\ str[1] = "0" /\ str[2] = "x"
    THEN ParseHexDigits(SubSeq(str, 3, Len(str)))
    ELSE ParseHexDigits(str)

\* int.from_bytes(bytes): big-endian, unsigned
RECURSIVE FromBytes(_)
FromBytes(bs) ==
    IF Len(bs) = 0 THEN 0
    ELSE 256 * FromBytes(SubSeq(bs, 1, Len(bs) - 1)) + bs[Len(bs)]

\* bitwise and of two bytes
RECURSIVE BitAnd(_, _)
BitAnd(a, b) ==
    IF a = 0 \/ b = 0 THEN 0
    ELSE 2 * BitAnd(a \div 2, b \div 2) + (IF a % 2 = 1 /\ b % 2 = 1 THEN 1 ELSE 0)


(***************************************************************************)
(* The world: devices, addresses, advertisements.                          *)
(***************************************************************************)
NoDevice == 0
NoAddress == 0
NoClient == 0

AllDevices == 1..NumDevices

\* BLEDevice.address
AddressOf(d) == 10 * d

\* constants.BT_MANUFACTURER_ID, and the identifier of some other vendor
BT_MANUFACTURER_ID == 1076
OtherManufacturer == BT_MANUFACTURER_ID + 1

\* device.metadata["manufacturer_data"].keys()
ManufacturerKeys(d) ==
    IF d % 2 = 1 THEN {BT_MANUFACTURER_ID} ELSE {OtherManufacturer}

\* constants.PyHatchBabyRestSound: the known sound identifiers
PyHatchBabyRestSound == {0, 2, 3, 4, 5, 6, 7, 9, 10, 11, 13, 14}

(***************************************************************************)
(* Status buffers (the feedback characteristic).  Python index i is        *)
(* position i + 1 of the sequence.                                         *)
(***************************************************************************)
At(seq, i) == seq[i + 1]

\* seq[a:b]
Slice(seq, a, b) == SubSeq(seq, a + 1, IF b > Len(seq) THEN Len(seq) ELSE b)

MkBuf(ts, rgb, br, snd, vol, flags) ==
    <<84>> \o ts \o <<67>> \o rgb \o <<br, 83, snd, vol, 80, flags>>

WithByte(buf, i, v) == [buf EXCEPT ![i + 1] = v]

Good1 == MkBuf(<<0, 0, 1, 0>>, <<10, 20, 30>>, 200, 2, 50, 0)
Good2 == MkBuf(<<0, 0, 0, 7>>, <<0, 255, 1>>, 5, 11, 255, 192)

GoodBufs == {Good1, Good2}

\* one wrong section marker each, and a sound byte outside the enumeration
BadBufs == {WithByte(Good2, 5, 68), WithByte(Good2, 10, 0),
            WithByte(Good2, 13, 81), WithByte(Good2, 11, 1)}

\* Good1 with every value of the flags byte
FlagBufs == {WithByte(Good1, 14, f) : f \in 0..255}

\* Good1 with every volume byte, every known sound byte, and the four
\* combinations of the two power bits
FieldBufs ==
    {WithByte(Good1, 12, v) : v \in 0..255}
        \cup {WithByte(Good1, 11, snd) : snd \in PyHatchBabyRestSound}
        \cup {WithByte(Good1, 14, f) : f \in {0, 64, 128, 192}}

\* the buffers the reads of Spec return
Bufs == GoodBufs \cup BadBufs

(***************************************************************************)
(* refresh_data, lines 122-137: the decoding of a read buffer.             *)
(***************************************************************************)
Response(raw) == [i \in 1..Len(raw) |-> Hex(raw[i])]

\* line 137: power = not bool(int("11000000", 2) & int(response[14], 16))
PowerOf(flagsText) == ~(BitAnd(192, IntBase16(flagsText)) # 0)

\* the exception lines 122-137 raise on raw, "" when they raise none
DecodeError(raw) ==
    LET response == Response(raw) IN
    IF Len(raw) <= 5 THEN "IndexError"
    ELSE IF At(response, 5) # <<"0", "x", "4", "3">> THEN "AssertionError"
    ELSE IF Len(raw) <= 10 THEN "IndexError"
    ELSE IF At(response, 10) # <<"0", "x", "5", "3">> THEN "AssertionError"
    ELSE IF Len(raw) <= 13 THEN "IndexError"
    ELSE IF At(response, 13) # <<"0", "x", "5", "0">> THEN "AssertionError"
    ELSE IF IntBase16(At(response, 11)) \notin PyHatchBabyRestSound THEN "ValueError"
    ELSE IF Len(raw) <= 14 THEN "IndexError"
    ELSE ""

\* A datetime: no value (None), an aware UTC time given by its epoch seconds,
\* or a naive local time given by its calendar fields <<Y, M, D, h, m, s>>.
NoTime == [tz |-> "None", at |-> <<>>]
\* datetime.fromtimestamp(ts, UTC)
FromTimestampUTC(ts) == [tz |-> "UTC", at |-> <<ts>>]
LocalTime(cal) == [tz |-> "naive", at |-> cal]

\* the values lines 124-139 compute from a buffer that raises nothing
Decode(raw) ==
    LET response == Response(raw)
        rgbb == [i \in 1..4 |-> IntBase16(Slice(response, 6, 10)[i])]
    IN [time       |-> FromTimestampUTC(FromBytes(Slice(raw, 1, 5))),
        color      |-> <<rgbb[1], rgbb[2], rgbb[3]>>,
        brightness |-> rgbb[4],
        sound      |-> IntBase16(At(response, 11)),
        volume     |-> IntBase16(At(response, 12)),
        power      |-> PowerOf(At(response, 14))]

(***************************************************************************)
(* State.                                                                  *)
(***************************************************************************)
VARIABLES
    device,        \* self.device: NoDevice or a device
    address,       \* self.address: NoAddress or an address
    _client,       \* self._client: NoClient, or the device the handle is bound to
    connected,     \* the handle's is_connected
    was_open,      \* the handle's was_open
    auto_refresh,  \* self.auto_refresh
    attrs,         \* the status attributes that have been assigned so far
    time, color, brightness, sound, volume, power,   \* the cached status
    lastOp,        \* history: the operation that has just returned or raised,
                   \*   "idle" once the caller has taken its outcome
    pre,           \* history: the session as that operation found it
    err,           \* history: the exception it raised, "" when it returned
    ret,           \* history: the value it returned, <<>> for None
    log,           \* history: the awaited calls it made, in order
    scopes         \* history: the guard scopes it exited, in order

vars == <<device, address, _client, connected, was_open, auto_refresh, attrs,
          time, color, brightness, sound, volume, power,
          lastOp, pre, err, ret, log, scopes>>

StatusAttrs == {"time", "color", "brightness", "sound", "volume", "power"}

(***************************************************************************)
(* A coroutine is a function from the session (a record s: the fields of   *)
(* the object, plus k, the number of awaited calls made so far, stack, the *)
(* guard scopes that are open, and the history) to the session once it has *)
(* returned or raised (s.err).                                             *)
(***************************************************************************)
Session(dev, addr, auto) ==
    [device |-> dev, address |-> addr, _client |-> NoClient,
     connected |-> FALSE, was_open |-> FALSE, auto_refresh |-> auto,
     attrs |-> {}, time |-> NoTime, color |-> <<0, 0, 0>>, brightness |-> 0,
     sound |-> 0, volume |-> 0, power |-> FALSE,
     k |-> 0, stack |-> <<>>, err |-> "", log |-> <<>>, scopes |-> <<>>]

\* the session as an operation finds it
Start ==
    [device |-> device, address |-> address, _client |-> _client,
     connected |-> connected, was_open |-> was_open,
     auto_refresh |-> auto_refresh, attrs |-> attrs, time |-> time,
     color |-> color, brightness |-> brightness, sound |-> sound,
     volume |-> volume, power |-> power,
     k |-> 0, stack |-> <<>>, err |-> "", log |-> <<>>, scopes |-> <<>>]

\* The answers of the transport to one operation: the devices that
\* advertise, the buffers its reads return, and the number of the awaited
\* call that raises (0: none does).
Oracle(adv, bufs, fail) == [adv |-> adv, bufs |-> bufs, fail |-> fail]

\* the cached identity and the cached status of a session record
Cached(s) == [device |-> s.device, address |-> s.address, attrs |-> s.attrs,
              time |-> s.time, color |-> s.color, brightness |-> s.brightness,
              sound |-> s.sound, volume |-> s.volume, power |-> s.power]

\* An awaited call: it raises when the oracle says so.  A transport call
\* raises a transport error or CancelledError: nothing in the source
\* catches either, so which of the two it is ("Raised") is settled when the
\* operation is over.  asyncio.sleep can only be cancelled.  The log keeps,
\* with the call, what the session had cached when the call was made (at).
Await(s, o, ev, data) ==
    LET n == s.k + 1
        raised == o.fail = n
    IN [s EXCEPT !.k = n,
                 !.err = IF ~raised THEN ""
                         ELSE IF ev = "sleep" THEN "CancelledError"
                         ELSE "Raised",
                 !.log = Append(@, [ev |-> ev, ok |-> ~raised, data |-> data,
                                    at |-> Cached(s)])]

Reads(lg) == {i \in 1..Len(lg) : lg[i].ev = "read"}

(***************************************************************************)
(* The transport's scanner (bleak): the first advertising device that      *)
(* matches, None when there is none.                                       *)
(***************************************************************************)
First(ds) == IF ds = {} THEN NoDevice ELSE CHOOSE d \in ds : \A e \in ds : d <= e

find_device_by_address(adv, addr) == First({d \in adv : AddressOf(d) = addr})

\* the filter of lines 102-103
find_device_by_filter(adv) ==
    First({d \in adv : BT_MANUFACTURER_ID \in ManufacturerKeys(d)})

(***************************************************************************)
(* Sequencing.  Do(x, K) is K applied to the value of x; Try(x, K) is the  *)
(* statement after an awaited coroutine x: it runs unless x raised.        *)
(***************************************************************************)
Do(x, K(_)) == CHOOSE y \in {K(v) : v \in {x}} : TRUE

Try(x, K(_)) == Do(x, LAMBDA v : IF v.err # "" THEN v ELSE K(v))

(***************************************************************************)
(* SaveConnectBleakClient, lines 16-28.                                    *)
(***************************************************************************)
\* __aenter__: the scope is entered unless connect() raises
aenter(s, o) ==
    IF s.connected
    THEN [s EXCEPT !.was_open = TRUE, !.stack = Append(@, TRUE)]
    ELSE Try(Await(s, o, "connect", <<>>), LAMBDA s1 :
             [s1 EXCEPT !.connected = TRUE, !.stack = Append(@, FALSE)])

\* A faulty __aexit__, to show what C3 rests on: it disconnects without
\* looking at was_open.
aexit_always_disconnects(s) ==
    Do([s EXCEPT !.connected = FALSE,
                 !.log = Append(@, [ev |-> "disconnect", ok |-> TRUE,
                                    data |-> <<>>])],
       LAMBDA s1 :
         [s1 EXCEPT !.stack = SubSeq(@, 1, Len(@) - 1),
                    !.scopes = Append(@, [entry    |-> s.stack[Len(s.stack)],
                                          exit     |-> s1.connected,
                                          was_open |-> s.was_open,
                                          raised   |-> s.err # ""])])

\* __aexit__: runs whether the body returned or raised, and re-raises
aexit(s) ==
    Do(IF ~s.was_open
       THEN [s EXCEPT !.connected = FALSE,
                      !.was_open = FALSE,
                      !.log = Append(@, [ev |-> "disconnect", ok |-> TRUE,
                                         data |-> <<>>])]
       ELSE s,
       LAMBDA s1 :
         [s1 EXCEPT !.stack = SubSeq(@, 1, Len(@) - 1),
                    !.scopes = Append(@, [entry    |-> s.stack[Len(s.stack)],
                                          exit     |-> s1.connected,
                                          was_open |-> s.was_open,
                                          raised   |-> s.err # ""])])

(***************************************************************************)
(* PyHatchBabyRestAsync.                                                   *)
(***************************************************************************)
\* A faulty scan, to show what C8 rests on: it stores the answer of the
\* scanner before it tests it.
scan_stores_before_test(s, o) ==
    Try(Await(s, o, "scan", o.adv), LAMBDA s1 :
    Do(IF s.address # NoAddress
       THEN find_device_by_address(o.adv, s.address)
       ELSE find_device_by_filter(o.adv),
       LAMBDA found :
         IF found = NoDevice
         THEN [s1 EXCEPT !.device = found, !.err = "RuntimeError"]
         ELSE [s1 EXCEPT !.device = found, !.address = AddressOf(found)]))

\* A faulty scan, to show what C11 rests on: it forgets the device it had
\* when the scanner raises or is cancelled.
scan_forgets_on_failure(s, o) ==
    Do(Await(s, o, "scan", o.adv), LAMBDA s1 :
    IF s1.err # "" THEN [s1 EXCEPT !.device = NoDevice]
    ELSE Do(IF s.address # NoAddress
            THEN find_device_by_address(o.adv, s.address)
            ELSE find_device_by_filter(o.adv),
            LAMBDA found :
              IF found = NoDevice THEN [s1 EXCEPT !.err = "RuntimeError"]
              ELSE [s1 EXCEPT !.device = found, !.address = AddressOf(found)]))

\* scan, lines 95-114
scan(s, o) ==
    Try(Await(s, o, "scan", o.adv), LAMBDA s1 :
    Do(IF s.address # NoAddress
       THEN find_device_by_address(o.adv, s.address)
       ELSE find_device_by_filter(o.adv),
       LAMBDA found :
         IF found = NoDevice THEN [s1 EXCEPT !.err = "RuntimeError"]
         ELSE [s1 EXCEPT !.device = found, !.address = AddressOf(found)]))

\* A faulty _ensure_scan, to show what C18 rests on: it scans whether the
\* session has a device or not.
_ensure_scan_always(s, o) == scan(s, o)

\* _ensure_scan, lines 71-75 (the device it returns is s.device afterwards)
_ensure_scan(s, o) == IF s.device = NoDevice THEN scan(s, o) ELSE s

\* A faulty client property, to show what C17 rests on: it makes a new
\* handle every time it is asked for one.
client_always_new(s, o) ==
    Try(_ensure_scan(s, o), LAMBDA s1 :
        [s1 EXCEPT !._client = s1.device,
                   !.log = Append(@, [ev |-> "client", ok |-> TRUE,
                                      data |-> s1.device])])

\* the client property, lines 62-69; a handle is known by the device it is
\* made for, and the log keeps the making of it
client(s, o) ==
    IF s._client # NoClient THEN s
    ELSE Try(_ensure_scan(s, o), LAMBDA s1 :
             [s1 EXCEPT !._client = s1.device,
                        !.log = Append(@, [ev |-> "client", ok |-> TRUE,
                                           data |-> s1.device])])

\* DecodeError and Decode on the buffers of the model, computed once
AllBufs == GoodBufs \cup BadBufs \cup FlagBufs \cup FieldBufs
DecodeErrorOf == [raw \in AllBufs |-> DecodeError(raw)]
DecodeOf == [raw \in {b \in AllBufs : DecodeError(b) = ""} |-> Decode(raw)]

\* A faulty decoding, to show what C7 rests on: it assigns the time as
\* soon as it has computed it, before the markers are tested.
apply_read_time_first(s, raw) ==
    Do([s EXCEPT !.attrs = @ \cup {"time"},
                 !.time = FromTimestampUTC(FromBytes(Slice(raw, 1, 5)))],
       LAMBDA s0 :
         IF DecodeErrorOf[raw] # "" THEN [s0 EXCEPT !.err = DecodeErrorOf[raw]]
         ELSE Do(DecodeOf[raw], LAMBDA d :
              [s0 EXCEPT !.attrs = StatusAttrs, !.time = d.time,
                         !.color = d.color, !.brightness = d.brightness,
                         !.sound = d.sound, !.volume = d.volume,
                         !.power = d.power]))

\* lines 122-144: decode the buffer, then assign the six attributes
apply_read(s, raw) ==
    IF DecodeErrorOf[raw] # "" THEN [s EXCEPT !.err = DecodeErrorOf[raw]]
    ELSE Do(DecodeOf[raw], LAMBDA d :
         [s EXCEPT !.attrs = StatusAttrs, !.time = d.time, !.color = d.color,
                   !.brightness = d.brightness, !.sound = d.sound,
                   !.volume = d.volume, !.power = d.power])

\* refresh_data, lines 116-144
refresh_data(s, o) ==
    Try(_ensure_scan(s, o), LAMBDA s1 :
    Try(client(s1, o), LAMBDA s2 :
    Try(aenter(s2, o), LAMBDA s3 :
    Do(o.bufs[Cardinality(Reads(s3.log)) + 1], LAMBDA raw :
    Do(Await(s3, o, "read", raw), LAMBDA s4 :
    Try(aexit(s4), LAMBDA s5 :
    apply_read(s5, raw)))))))

\* A faulty body, to show what C4 rests on: it never refreshes.
write_without_refresh(s, o, command) == Await(s, o, "write", command)

\* A faulty body, to show what C10 rests on: it writes a second time when
\* the first write raises.
write_with_retry(s, o, command) ==
    Do(Await(s, o, "write", command), LAMBDA s0 :
    Try(IF s0.err # "" THEN Await(s0, o, "write", command) ELSE s0, LAMBDA s1 :
    IF ~s1.auto_refresh THEN s1
    ELSE Try(Await(s1, o, "sleep", <<>>), LAMBDA s2 :
         refresh_data(s2, o))))

\* lines 85-93: the body of the guard scope of _send_command
write_and_refresh(s, o, command) ==
    Try(Await(s, o, "write", command), LAMBDA s1 :
    IF ~s1.auto_refresh THEN s1
    ELSE Try(Await(s1, o, "sleep", <<>>), LAMBDA s2 :
         refresh_data(s2, o)))

\* A faulty _send_command, to show what C19 rests on: the settle delay and
\* the refresh come after the guard scope, not inside it.
_send_command_refresh_outside(s, o, command) ==
    Try(_ensure_scan(s, o), LAMBDA s1 :
    Try(client(s1, o), LAMBDA s2 :
    Try(aenter(s2, o), LAMBDA s3 :
    Do(Await(s3, o, "write", command), LAMBDA s4 :
    Try(aexit(s4), LAMBDA s5 :
    IF ~s5.auto_refresh THEN s5
    ELSE Try(Await(s5, o, "sleep", <<>>), LAMBDA s6 :
         refresh_data(s6, o)))))))

\* _send_command, lines 77-93
_send_command(s, o, command) ==
    Try(_ensure_scan(s, o), LAMBDA s1 :
    Try(client(s1, o), LAMBDA s2 :
    Try(aenter(s2, o), LAMBDA s3 :
    Do(write_and_refresh(s3, o, command), LAMBDA s4 :
    aexit(s4)))))

\* A faulty connect, to show what C9 rests on: it does not test
\* is_connected.
connect_unconditionally(s, o) ==
    Try(client(s, o), LAMBDA s1 :
    Try(Await(s1, o, "connect", <<>>), LAMBDA s2 :
    [s2 EXCEPT !.connected = TRUE]))

\* connect, lines 146-149
connect(s, o) ==
    Try(client(s, o), LAMBDA s1 :
    IF s1.connected THEN s1
    ELSE Try(Await(s1, o, "connect", <<>>), LAMBDA s2 :
         [s2 EXCEPT !.connected = TRUE]))

\* disconnect, lines 151-154
disconnect(s, o) ==
    Try(client(s, o), LAMBDA s1 :
    IF ~s1.connected THEN s1
    ELSE [s1 EXCEPT !.connected = FALSE,
                    !.log = Append(@, [ev |-> "disconnect", ok |-> TRUE,
                                       data |-> <<>>])])

(***************************************************************************)
(* The command strings, lines 157-200.                                     *)
(***************************************************************************)
\* a decimal number zero padded to width w (strftime's %Y, %m, ...)
RECURSIVE Dec(_, _)
Dec(n, w) == IF w = 0 THEN <<>> ELSE Append(Dec(n \div 10, w - 1), HexDigit(n % 10))

\* cal.strftime("ST%Y%m%d%H%M%SU")
StrfTime(cal) ==
    <<"S", "T">> \o Dec(cal[1], 4) \o Dec(cal[2], 2) \o Dec(cal[3], 2)
                 \o Dec(cal[4], 2) \o Dec(cal[5], 2) \o Dec(cal[6], 2) \o <<"U">>

CmdPower(on) == <<"S", "I">> \o Fmt02x(IF on THEN 1 ELSE 0)

CmdSound(snd) == <<"S", "N">> \o Fmt02x(snd)

\* A faulty volume command, to show what C13 rests on: the field is written
\* in decimal ("SV{:02d}").
CmdVolume_decimal(vol) == <<"S", "V">> \o Dec(vol, IF vol < 100 THEN 2 ELSE 3)

CmdVolume(vol) == <<"S", "V">> \o Fmt02x(vol)

CmdColor(r, g, b, br) ==
    <<"S", "C">> \o Fmt02x(r) \o Fmt02x(g) \o Fmt02x(b) \o Fmt02x(br)

(***************************************************************************)
(* The setting mutators, lines 156-201.                                    *)
(***************************************************************************)
Assign(s, attr, v) ==
    [[s EXCEPT !.attrs = @ \cup {attr}] EXCEPT ![attr] = v]

\* power_on and power_off
set_power(s, o, on) ==
    Do(Assign(s, "power", on), LAMBDA s1 : _send_command(s1, o, CmdPower(on)))

set_sound(s, o, snd) ==
    Do(Assign(s, "sound", snd), LAMBDA s1 : _send_command(s1, o, CmdSound(snd)))

\* A faulty set_volume, to show what C16 rests on: it stores the volume in
\* the sound attribute.
set_volume_stores_sound(s, o, vol) ==
    Do(Assign(s, "sound", vol), LAMBDA s1 : _send_command(s1, o, CmdVolume(vol)))

set_volume(s, o, vol) ==
    Do(Assign(s, "volume", vol), LAMBDA s1 : _send_command(s1, o, CmdVolume(vol)))

\* A faulty set_color, to show what C5 rests on: it composes the command
\* from the brightness it had cached before it refreshes.
set_color_composes_first(s, o, rgb) ==
    Do(CmdColor(rgb[1], rgb[2], rgb[3], s.brightness), LAMBDA command :
    Try(refresh_data(s, o), LAMBDA s1 :
    Do(Assign(s1, "color", rgb), LAMBDA s2 :
    _send_command(s2, o, command))))

\* A faulty set_color, to show what C15 rests on: it stores the colour
\* first, as the other mutators store their field.
set_color_stores_first(s, o, rgb) ==
    Do(Assign(s, "color", rgb), LAMBDA s0 :
    Try(refresh_data(s0, o), LAMBDA s1 :
    Do(CmdColor(rgb[1], rgb[2], rgb[3], s1.brightness), LAMBDA command :
    Do(Assign(s1, "color", rgb), LAMBDA s2 :
    _send_command(s2, o, command)))))

set_color(s, o, rgb) ==
    Try(refresh_data(s, o), LAMBDA s1 :
    Do(CmdColor(rgb[1], rgb[2], rgb[3], s1.brightness), LAMBDA command :
    Do(Assign(s1, "color", rgb), LAMBDA s2 :
    _send_command(s2, o, command))))

set_brightness(s, o, br) ==
    Try(refresh_data(s, o), LAMBDA s1 :
    Do(CmdColor(s1.color[1], s1.color[2], s1.color[3], br), LAMBDA command :
    Do(Assign(s1, "brightness", br), LAMBDA s2 :
    _send_command(s2, o, command))))

\* now is what datetime.now() returns during the call
set_time(s, o, new_time, now) ==
    Do(Assign(s, "time", IF new_time = NoTime THEN LocalTime(now) ELSE new_time),
       LAMBDA s1 : _send_command(s1, o, StrfTime(now)))

\* A faulty is_connected, to show what C12 rests on: it asks for the handle
\* without testing that there is one.
is_connected_without_test(s, o) == client(s, o)

\* the is_connected property, lines 207-213
is_connected(s, o) == IF s._client = NoClient THEN s ELSE client(s, o)

(***************************************************************************)
(* Inputs.                                                                 *)
(***************************************************************************)
\* what an awaited transport call raises
Kinds == {"BleakError", "CancelledError"}

\* the oracles, none of whose calls raises, of an operation on session s
\* whose reads, up to n of them, return buffers of B; the advertisements
\* matter only if it scans
OraclesOver(B, s, n, scans) ==
    {Oracle(adv, bufs, 0) :
        adv \in (IF scans \/ s.device = NoDevice THEN SUBSET AllDevices ELSE {{}}),
        bufs \in [1..n -> B]}

Oracles(s, n, scans) == OraclesOver(Bufs, s, n, scans)

\* the number of status reads an operation can make
NumReads(s, before) == before + (IF s.auto_refresh THEN 1 ELSE 0)

\* The arguments of the mutators: values that the status of Good1 also has,
\* so that a mutation changes the cache after Good2 was read and a refresh
\* with Good2 changes it back.
Sounds == {2}
Volumes == {50}
Colors == {<<10, 20, 30>>}
Brightnesses == {200}
NewTimes == {NoTime, FromTimestampUTC(256)}
Clock == {<<2025, 6, 7, 8, 9, 10>>}

(***************************************************************************)
(* Construction: __init__, lines 34-60, and the module's connect(), lines  *)
(* 216-236 (scan_now and refresh_now run after the constructor instead of  *)
(* inside it: the same calls in the same order).                           *)
(***************************************************************************)
\* arg: a BLEDevice when isDevice, else an address or NoAddress
Construct(arg, isDevice, scan_now, refresh_now, auto, o) ==
    LET s0 == IF isDevice THEN Session(arg, AddressOf(arg), auto)
              ELSE Session(NoDevice, arg, auto)
        s1 == IF ~isDevice /\ scan_now THEN scan(s0, o) ELSE s0
    IN IF s1.err # "" \/ ~refresh_now THEN s1 ELSE refresh_data(s1, o)

NoPre == Session(NoDevice, NoAddress, FALSE)

\* the fields of the object are those of r
Object(r) ==
    /\ device = r.device
    /\ address = r.address
    /\ _client = r._client
    /\ connected = r.connected
    /\ was_open = r.was_open
    /\ auto_refresh = r.auto_refresh
    /\ attrs = r.attrs
    /\ time = r.time
    /\ color = r.color
    /\ brightness = r.brightness
    /\ sound = r.sound
    /\ volume = r.volume
    /\ power = r.power

Init ==
    \E isDevice, scan_now, refresh_now, auto \in BOOLEAN :
    \E arg \in (IF isDevice THEN AllDevices
                ELSE {NoAddress} \cup {AddressOf(d) : d \in AllDevices}) :
    \E adv \in SUBSET AllDevices, bufs \in [1..1 -> Bufs] :
    \E r \in {Construct(arg, isDevice, scan_now, refresh_now, auto,
                        Oracle(adv, bufs, 0))} :
        /\ r.err = ""
        /\ Object(r)
        /\ lastOp = "__init__"
        /\ pre = NoPre
        /\ err = ""
        /\ ret = <<>>
        /\ log = r.log
        /\ scopes = r.scopes

(***************************************************************************)
(* Actions: one per public coroutine.  The caller awaits one operation at  *)
(* a time: Step(op, F, oracles, RV) is the call of op, whose coroutine is  *)
(* F and whose value is RV, up to its return or its exception, under every *)
(* oracle: no awaited call raises, or one of those it makes does.          *)
(***************************************************************************)
Step(op, F(_, _), oracles, RV(_)) ==
    \E s \in {Start} :
    \E o \in oracles :
    \E r0 \in {F(s, o)} :
    \E fail \in 0..r0.k :
    \E r \in {IF fail = 0 THEN r0 ELSE F(s, [o EXCEPT !.fail = fail])} :
    \E kind \in (IF r.err = "Raised" THEN Kinds ELSE {r.err}) :
          /\ device' = r.device
          /\ address' = r.address
          /\ _client' = r._client
          /\ connected' = r.connected
          /\ was_open' = r.was_open
          /\ auto_refresh' = r.auto_refresh
          /\ attrs' = r.attrs
          /\ time' = r.time
          /\ color' = r.color
          /\ brightness' = r.brightness
          /\ sound' = r.sound
          /\ volume' = r.volume
          /\ power' = r.power
          /\ lastOp' = op
          /\ pre' = s
          /\ err' = kind
          /\ ret' = IF r.err = "" THEN RV(r) ELSE <<>>
          /\ log' = r.log
          /\ scopes' = r.scopes

None(r) == <<>>

Idle == lastOp = "idle"

Scan ==
    /\ Idle
    /\ Step("scan", scan, Oracles(Start, 0, TRUE), LAMBDA r : <<r.device>>)

RefreshData ==
    /\ Idle
    /\ Step("refresh_data", refresh_data, Oracles(Start, 1, FALSE), None)

Connect ==
    /\ Idle
    /\ Step("connect", connect, Oracles(Start, 0, FALSE), None)

Disconnect ==
    /\ Idle
    /\ Step("disconnect", disconnect, Oracles(Start, 0, FALSE), None)

PowerOn ==
    /\ Idle
    /\ Step("power_on", LAMBDA s, o : set_power(s, o, TRUE),
            Oracles(Start, NumReads(Start, 0), FALSE), None)

PowerOff ==
    /\ Idle
    /\ Step("power_off", LAMBDA s, o : set_power(s, o, FALSE),
            Oracles(Start, NumReads(Start, 0), FALSE), None)

SetSound ==
    /\ Idle
    /\ \E snd \in Sounds :
          Step("set_sound", LAMBDA s, o : set_sound(s, o, snd),
               Oracles(Start, NumReads(Start, 0), FALSE), None)

SetVolume ==
    /\ Idle
    /\ \E vol \in Volumes :
          Step("set_volume", LAMBDA s, o : set_volume(s, o, vol),
               Oracles(Start, NumReads(Start, 0), FALSE), None)

SetColor ==
    /\ Idle
    /\ \E rgb \in Colors :
          Step("set_color", LAMBDA s, o : set_color(s, o, rgb),
               Oracles(Start, NumReads(Start, 1), FALSE), None)

SetBrightness ==
    /\ Idle
    /\ \E br \in Brightnesses :
          Step("set_brightness", LAMBDA s, o : set_brightness(s, o, br),
               Oracles(Start, NumReads(Start, 1), FALSE), None)

SetTime ==
    /\ Idle
    /\ \E new_time \in NewTimes, now \in Clock :
          Step("set_time", LAMBDA s, o : set_time(s, o, new_time, now),
               Oracles(Start, NumReads(Start, 0), FALSE), None)

IsConnected ==
    /\ Idle
    /\ Step("is_connected", is_connected, Oracles(Start, 0, FALSE),
            LAMBDA r : <<IF r._client = NoClient THEN FALSE ELSE r.connected>>)

\* the caller has the outcome of the operation and is free to call the next
Return ==
    /\ ~Idle
    /\ lastOp' = "idle"
    /\ pre' = NoPre
    /\ err' = ""
    /\ ret' = <<>>
    /\ log' = <<>>
    /\ scopes' = <<>>
    /\ UNCHANGED <<device, address, _client, connected, was_open, auto_refresh,
                   attrs, time, color, brightness, sound, volume, power>>

Next ==
    \/ Scan
    \/ RefreshData
    \/ Connect
    \/ Disconnect
    \/ PowerOn
    \/ PowerOff
    \/ SetSound
    \/ SetVolume
    \/ SetColor
    \/ SetBrightness
    \/ SetTime
    \/ IsConnected
    \/ Return

Spec == Init /\ [][Next]_vars

(***************************************************************************)
(* Decoding alone: a session that holds a device and has read nothing      *)
(* refreshes, and the read returns Good1 with any flags byte, or a buffer  *)
(* that does not decode.                                                   *)
(***************************************************************************)
InitCodec == Init /\ device # NoDevice /\ attrs = {}

RefreshCodec ==
    /\ Idle
    /\ Step("refresh_data", refresh_data,
            OraclesOver(FlagBufs \cup BadBufs, Start, 1, FALSE), None)

NextCodec ==
    \/ RefreshCodec
    \/ Return

SpecCodec == InitCodec /\ [][NextCodec]_vars

(***************************************************************************)
(* The two codecs together: a session that holds a device refreshes, the   *)
(* read returns a buffer of FieldBufs, and the caller sends back what the  *)
(* refresh decoded: set_volume(volume), set_sound(sound), and power_on()   *)
(* or power_off() as power says.                                           *)
(***************************************************************************)
RefreshFields ==
    /\ Idle
    /\ Step("refresh_data", refresh_data,
            OraclesOver(FieldBufs, Start, 1, FALSE), None)

ResendVolume ==
    /\ Idle
    /\ attrs = StatusAttrs
    /\ Step("set_volume", LAMBDA s, o : set_volume(s, o, s.volume),
            OraclesOver({Good1}, Start, NumReads(Start, 0), FALSE), None)

ResendSound ==
    /\ Idle
    /\ attrs = StatusAttrs
    /\ Step("set_sound", LAMBDA s, o : set_sound(s, o, s.sound),
            OraclesOver({Good1}, Start, NumReads(Start, 0), FALSE), None)

ResendPower ==
    /\ Idle
    /\ attrs = StatusAttrs
    /\ Step(IF power THEN "power_on" ELSE "power_off",
            LAMBDA s, o : set_power(s, o, s.power),
            OraclesOver({Good1}, Start, NumReads(Start, 0), FALSE), None)

NextFields ==
    \/ RefreshFields
    \/ ResendVolume
    \/ ResendSound
    \/ ResendPower
    \/ Return

SpecFields == InitCodec /\ [][NextFields]_vars

(***************************************************************************)
(* Properties.                                                             *)
(***************************************************************************)
\* the positions of the awaited calls ev in the log of the last operation
Events(ev) == {i \in 1..Len(log) : log[i].ev = ev}

\* the operations that use the transport inside a guard scope
CommandOps == {"power_on", "power_off", "set_sound", "set_volume",
               "set_color", "set_brightness", "set_time"}
GuardedOps == CommandOps \cup {"refresh_data"}

\* the cached status of a session record, and of the object
StatusOf(s) == [attrs |-> s.attrs, time |-> s.time, color |-> s.color,
                brightness |-> s.brightness, sound |-> s.sound,
                volume |-> s.volume, power |-> s.power]
Status == [attrs |-> attrs, time |-> time, color |-> color,
           brightness |-> brightness, sound |-> sound,
           volume |-> volume, power |-> power]

\* C1: every guard scope entered while the handle was not connected leaves
\* the handle not connected when it is exited, whether its body returned or
\* raised.
C1_ScopeClosesWhatItOpened ==
    \A i \in 1..Len(scopes) : ~scopes[i].entry => ~scopes[i].exit

\* C2: refresh_data and every command, called while the transport is not
\* connected, leave it not connected when they return or raise.
C2_EphemeralConnectionClosed ==
    (lastOp \in GuardedOps /\ ~pre.connected) => ~connected

\* C3: a guard scope entered while the handle was connected issues no
\* connect and no disconnect, so refresh_data and every command, called
\* while the handle is connected, leave it connected; and a scope never
\* disconnects unless a scope of the same operation connected.
C3_GuardLeavesOpen ==
    /\ \A i \in 1..Len(scopes) : scopes[i].entry => scopes[i].exit
    /\ (lastOp \in GuardedOps /\ pre.connected) =>
          /\ connected
          /\ Events("connect") = {}
          /\ Events("disconnect") = {}
    /\ lastOp \in GuardedOps =>
          \A i \in Events("disconnect") :
              \E j \in Events("connect") : j < i /\ log[j].ok

C3_Witness ==
    /\ lastOp = "set_volume"
    /\ pre.connected
    /\ auto_refresh
    /\ Len(scopes) = 2
    /\ connected

\* C4: a command that returns with auto_refresh enabled made one write,
\* then slept, then made exactly one status read, and the whole cached
\* status is the decoding of the buffer that read returned.
C4_AutoRefreshOverwrites ==
    (lastOp \in CommandOps /\ auto_refresh /\ err = "") =>
        \E w \in Events("write") :
            /\ Events("write") = {w}
            /\ log[w].ok
            /\ log[w + 1].ev = "sleep"
            /\ {r \in Events("read") : r > w} = {w + 2}
            /\ DecodeError(log[w + 2].data) = ""
            /\ Status = [attrs |-> StatusAttrs] @@ Decode(log[w + 2].data)

C4_Witness ==
    /\ lastOp = "set_volume"
    /\ auto_refresh
    /\ err = ""
    /\ pre.volume = 255
    /\ volume = 255

\* the i-th two-digit hexadecimal field of a command, after its two-letter tag
Field(command, i) == ParseHexDigits(SubSeq(command, 2 * i + 1, 2 * i + 2))

\* C5: set_color and set_brightness read the status before they write, and
\* the SC command they write carries, in the field the caller did not give,
\* what that read decodes to: the brightness for set_color, the red, green
\* and blue for set_brightness.
C5_RefreshBeforeCompose ==
    (lastOp \in {"set_color", "set_brightness"} /\ Events("write") # {}) =>
        \E w \in Events("write") :
        \E r \in Events("read") :
            /\ r < w
            /\ \A q \in Events("read") : r <= q
            /\ log[r].ok
            /\ DecodeError(log[r].data) = ""
            /\ SubSeq(log[w].data, 1, 2) = <<"S", "C">>
            /\ Len(log[w].data) = 10
            /\ lastOp = "set_color" =>
                  Field(log[w].data, 4) = Decode(log[r].data).brightness
            /\ lastOp = "set_brightness" =>
                  <<Field(log[w].data, 1), Field(log[w].data, 2),
                    Field(log[w].data, 3)>> = Decode(log[r].data).color

C5_Witness ==
    /\ lastOp = "set_color"
    /\ pre.attrs = StatusAttrs
    /\ pre.brightness = 200
    /\ \E w \in Events("write") : log[w].ok /\ Field(log[w].data, 4) = 5

\* C6: a refresh that returns has set power to FALSE exactly when both of
\* the two most significant bits of status byte 14 are set.
C6_PowerOffOnlyIfBothBits ==
    (lastOp = "refresh_data" /\ err = "") =>
        \A r \in Events("read") :
            power = ~(BitAnd(At(log[r].data, 14), 192) = 192)

\* C7: a refresh whose read returns a buffer with a wrong section marker or
\* an unknown sound byte raises, and the cached status is what it was before
\* (also when the refresh is the one set_color and set_brightness start with).
C7_DecodeOrFail ==
    \A r \in Events("read") :
        ( /\ lastOp \in {"refresh_data", "set_color", "set_brightness"}
          /\ \A q \in Events("read") : r <= q
          /\ log[r].ok
          /\ \/ At(log[r].data, 5) # 67
             \/ At(log[r].data, 10) # 83
             \/ At(log[r].data, 13) # 80
             \/ At(log[r].data, 11) \notin PyHatchBabyRestSound )
        => /\ err \in {"AssertionError", "ValueError"}
           /\ Status = StatusOf(pre)
           /\ Events("write") = {}

C7_Witness ==
    /\ lastOp = "refresh_data"
    /\ err = "AssertionError"
    /\ pre.attrs = StatusAttrs
    /\ pre.volume = 50
    /\ \E r \in Events("read") : At(log[r].data, 12) = 255

\* C8: a scan that finds no device (none advertises with the stored address
\* or, when no address is stored, with the manufacturer identifier) raises
\* the not-found error; and a scan that raises leaves device and address as
\* they were, so only a scan that found a device overwrites them.
C8_ScanFailureKeepsIdentity ==
    lastOp = "scan" =>
        /\ ( /\ log[1].ok
             /\ \A d \in log[1].data :
                   IF pre.address # NoAddress
                   THEN AddressOf(d) # pre.address
                   ELSE BT_MANUFACTURER_ID \notin ManufacturerKeys(d) )
           => err = "RuntimeError"
        /\ err # "" => (device = pre.device /\ address = pre.address)

C8_Witness ==
    /\ lastOp = "scan"
    /\ err = "RuntimeError"
    /\ pre.device # NoDevice
    /\ device = pre.device

\* C9: connect() issues a transport connect only if the handle is not
\* connected, and at most one; disconnect() issues a transport disconnect
\* only if it is connected, and at most one; a call that returns leaves the
\* handle connected (not connected), so that a second call finds it so,
\* issues nothing and changes nothing.
C9_ConnectDisconnectIdempotent ==
    /\ lastOp = "connect" =>
          /\ Cardinality(Events("connect")) = (IF pre.connected \/ _client = NoClient
                                               THEN 0 ELSE 1)
          /\ Events("disconnect") = {}
          /\ err = "" => connected
          /\ pre.connected => (connected /\ err = "")
    /\ lastOp = "disconnect" =>
          /\ Cardinality(Events("disconnect")) = (IF pre.connected THEN 1 ELSE 0)
          /\ Events("connect") = {}
          /\ err = "" => ~connected
          /\ (~pre.connected /\ pre._client # NoClient) => (~connected /\ err = "")

C9_Witness ==
    /\ lastOp = "connect"
    /\ pre.connected
    /\ err = ""
    /\ log = <<>>

\* C10: a command attempts one write at most; when the write raises, the
\* command raises the same exception, and neither sleeps nor reads after it.
C10_WriteFailurePropagates ==
    lastOp \in CommandOps =>
        /\ Cardinality(Events("write")) <= 1
        /\ \A w \in Events("write") :
              ~log[w].ok =>
                  /\ err \in Kinds
                  /\ \A i \in 1..Len(log) :
                        i > w => log[i].ev = "disconnect"

C10_Witness ==
    /\ lastOp = "power_on"
    /\ auto_refresh
    /\ err = "BleakError"
    /\ \E w \in Events("write") : ~log[w].ok

\* the operations whose first statement that stores anything follows an
\* awaited call
Readers == {"scan", "refresh_data", "connect", "disconnect", "is_connected"}

\* C11 as it was stated: an operation in which an awaited call is cancelled
\* leaves the cached identity and every field of the cached status as they
\* were when the operation was called, the setting mutators included.
C11_CancelKeepsCacheOfOperation ==
    err = "CancelledError" => Cached(Start) = Cached(pre)

\* C11, amended: the cached identity and status after a cancelled call are
\* what they were when that call was made (what the operation stored before
\* it stays: the optimistic field of a mutator, the identity of a lazy scan
\* that completed, the status of the refresh before a colour command); and
\* scan, refresh_data, connect and disconnect on a session that has its
\* identity leave them as they were when the operation was called.
C11_CancelKeepsCacheOfCall ==
    err = "CancelledError" =>
        /\ log # <<>>
        /\ \E i \in 1..Len(log) :
              /\ ~log[i].ok
              /\ \A j \in 1..Len(log) : ~log[j].ok => j = i
              /\ log[i].ev \in {"scan", "connect", "read", "write", "sleep"}
              /\ Cached(Start) = log[i].at
        /\ (lastOp \in Readers /\ pre.device # NoDevice) =>
              Cached(Start) = Cached(pre)

C11_Witness ==
    /\ lastOp = "power_on"
    /\ err = "CancelledError"
    /\ \E w \in Events("write") : ~log[w].ok
    /\ ~pre.power
    /\ power

\* C12: is_connected on a session for which no handle was ever created
\* returns False, awaits nothing (no scan, no transport call) and changes
\* no field of the session, so it creates no handle; on a session that has
\* a handle it returns the connection status of the transport, and changes
\* nothing either.
C12_IsConnectedWithoutHandle ==
    lastOp = "is_connected" =>
        /\ err = ""
        /\ log = <<>>
        /\ Object(pre)
        /\ ret = <<IF pre._client = NoClient THEN FALSE ELSE pre.connected>>

C12_Witness ==
    /\ lastOp = "is_connected"
    /\ pre._client = NoClient
    /\ pre.device = NoDevice
    /\ ret = <<FALSE>>
    /\ _client = NoClient

\* is_connected on a session that has a connected handle
C12_WitnessConnected ==
    /\ lastOp = "is_connected"
    /\ pre._client # NoClient
    /\ ret = <<TRUE>>

\* C13: refresh decodes the volume byte and the sound byte of a well-formed
\* buffer to their own values, for every volume 0..255 and every known
\* sound; and the command that carries a decoded value back (SV, SN, and SI
\* for power) is the tag and one two-digit hexadecimal field that parses to
\* the value that was decoded (1 for power True, 0 for False).
C13_FieldRoundTrip ==
    /\ (lastOp = "refresh_data" /\ err = "") =>
          \A r \in Events("read") :
              /\ volume = At(log[r].data, 12)
              /\ sound = At(log[r].data, 11)
    /\ \A w \in Events("write") :
          /\ Len(log[w].data) = 4
          /\ lastOp = "set_volume" =>
                /\ SubSeq(log[w].data, 1, 2) = <<"S", "V">>
                /\ Field(log[w].data, 1) = pre.volume
          /\ lastOp = "set_sound" =>
                /\ SubSeq(log[w].data, 1, 2) = <<"S", "N">>
                /\ Field(log[w].data, 1) = pre.sound
          /\ lastOp \in {"power_on", "power_off"} =>
                /\ SubSeq(log[w].data, 1, 2) = <<"S", "I">>
                /\ Field(log[w].data, 1) = (IF pre.power THEN 1 ELSE 0)

C13_Witness ==
    /\ lastOp = "set_volume"
    /\ pre.volume = 10
    /\ \E w \in Events("write") : log[w].ok /\ log[w].data = <<"S", "V", "0", "a">>

\* C14: when a guard scope is exited, was_open is TRUE exactly if the
\* handle was connected when that scope was entered.
C14_WasOpenOfItsScope ==
    \A i \in 1..Len(scopes) : scopes[i].was_open <=> scopes[i].entry

\* the refresh that set_color or set_brightness has started with failed:
\* its scan, its connect or its read raised, its scan found no device, or
\* the buffer it read does not decode; what is the error in each case
RefreshFirstError ==
    IF \E i \in 1..Len(log) :
          /\ ~log[i].ok
          /\ \A j \in 1..(i - 1) : log[j].ev # "read"
    THEN Kinds
    ELSE IF /\ log # <<>>
            /\ log[1].ev = "scan"
            /\ \A d \in log[1].data :
                  IF pre.address # NoAddress THEN AddressOf(d) # pre.address
                  ELSE BT_MANUFACTURER_ID \notin ManufacturerKeys(d)
    THEN {"RuntimeError"}
    ELSE {DecodeError(log[r].data) :
            r \in {q \in Events("read") : \A x \in Events("read") : q <= x}}
         \ {""}

\* C15: when the refresh that set_color or set_brightness starts with
\* fails, the operation raises that error, no write is attempted, and the
\* cached status, its color and brightness included, is what it was before.
C15_FailedRefreshAborts ==
    (lastOp \in {"set_color", "set_brightness"} /\ RefreshFirstError # {}) =>
        /\ err \in RefreshFirstError
        /\ Events("write") = {}
        /\ Events("sleep") = {}
        /\ Status = StatusOf(pre)

C15_Witness ==
    /\ lastOp = "set_color"
    /\ err = "AssertionError"
    /\ pre.color # <<10, 20, 30>>
    /\ color = pre.color
    /\ Events("write") = {}

\* the status field a mutator names, and the values the callers of the model
\* give it
Named(op) ==
    CASE op \in {"power_on", "power_off"} -> "power"
      [] op = "set_sound" -> "sound"
      [] op = "set_volume" -> "volume"
      [] op = "set_color" -> "color"
      [] op = "set_brightness" -> "brightness"
      [] op = "set_time" -> "time"

Given(op) ==
    CASE op = "power_on" -> {TRUE}
      [] op = "power_off" -> {FALSE}
      [] op = "set_sound" -> Sounds
      [] op = "set_volume" -> Volumes
      [] op = "set_color" -> Colors
      [] op = "set_brightness" -> Brightnesses
      [] op = "set_time" -> (NewTimes \ {NoTime}) \cup {LocalTime(c) : c \in Clock}

\* C16 as it was stated: with auto_refresh disabled, every status field
\* other than the one the mutator names is what it was before the call.
C16_OnlyNamedFieldChanges ==
    (lastOp \in CommandOps /\ ~auto_refresh) =>
        \A f \in StatusAttrs \ {Named(lastOp)} : Status[f] = pre[f]

\* the status the mutator starts from: what the refresh of set_color and
\* set_brightness decoded, and for the others, and when that refresh
\* failed, the status before the call
StatusBase ==
    IF lastOp \in {"set_color", "set_brightness"} /\ RefreshFirstError = {}
    THEN LET r == CHOOSE q \in Events("read") : \A x \in Events("read") : q <= x
         IN [attrs |-> StatusAttrs] @@ Decode(log[r].data)
    ELSE StatusOf(pre)

\* C16, amended: with auto_refresh disabled, power_on, power_off,
\* set_sound, set_volume and set_time change only the field they name and
\* leave every other status field as it was before the call; set_color and
\* set_brightness replace the whole status by what the refresh they start
\* with decoded and then change only the field they name.  The field holds
\* the value given when the command is written, and after the call whether
\* the write succeeded or not.
C16_OnlyNamedFieldAfterRefresh ==
    (lastOp \in CommandOps /\ ~auto_refresh) =>
        /\ \A f \in StatusAttrs \ {Named(lastOp)} : Status[f] = StatusBase[f]
        /\ \A w \in Events("write") :
              /\ log[w].at[Named(lastOp)] \in Given(lastOp)
              /\ Status[Named(lastOp)] = log[w].at[Named(lastOp)]
        /\ IF lastOp \in {"set_color", "set_brightness"} /\ RefreshFirstError # {}
           THEN Status[Named(lastOp)] = pre[Named(lastOp)]
           ELSE /\ Status[Named(lastOp)] \in Given(lastOp)
                /\ Named(lastOp) \in attrs

C16_Witness ==
    /\ lastOp = "set_brightness"
    /\ ~auto_refresh
    /\ err = ""
    /\ pre.attrs = StatusAttrs
    /\ pre.volume = 50
    /\ volume = 255
    /\ pre.brightness = 5
    /\ brightness = 200

\* a mutator that does not refresh, on a session that has read its status
C16_WitnessSound ==
    /\ lastOp = "set_sound"
    /\ ~auto_refresh
    /\ pre.attrs = StatusAttrs
    /\ pre.sound = 11
    /\ sound = 2
    /\ volume = 255

\* the operations that need the transport handle
HandleOps == GuardedOps \cup {"connect", "disconnect"}

\* the calls made on the transport handle
OnHandle == Events("connect") \cup Events("read") \cup Events("write")
               \cup Events("disconnect")

\* C17: an operation makes a handle only if the session has none, and one
\* at most; the session that has a handle keeps that handle; every call on
\* the transport is made after the handle was made; and an operation that
\* needs the handle and returns leaves the session with one.
C17_SingleCachedHandle ==
    /\ Cardinality(Events("client")) <= 1
    /\ pre._client # NoClient => (Events("client") = {} /\ _client = pre._client)
    /\ \A c \in Events("client") : _client = log[c].data /\ _client # NoClient
    /\ (lastOp # "__init__" /\ pre._client = NoClient) =>
          \A i \in OnHandle : \E c \in Events("client") : c < i
    /\ (lastOp \in HandleOps /\ err = "") => _client # NoClient
    /\ OnHandle # {} => _client # NoClient

\* a session that has a handle refreshes: it reads, and makes no handle
C17_Witness ==
    /\ lastOp = "refresh_data"
    /\ err = ""
    /\ pre._client # NoClient
    /\ _client = pre._client
    /\ Events("read") # {}
    /\ Events("client") = {}

\* a session that has none makes it on the first command
C17_WitnessFirst ==
    /\ lastOp = "power_on"
    /\ pre._client = NoClient
    /\ Cardinality(Events("client")) = 1
    /\ Cardinality(Events("read")) = 1

\* C18: a session has a handle only if it has a device; when a connect, a
\* read or a write is made the session has a device; an operation that
\* needs the transport, on a session that has no device, scans first; and
\* on a session that has a device no operation but scan() scans.
C18_LazyIdentity ==
    /\ _client # NoClient => device # NoDevice
    /\ \A i \in Events("connect") \cup Events("read") \cup Events("write") :
          log[i].at.device # NoDevice
    /\ (lastOp \in HandleOps /\ pre.device = NoDevice) =>
          (log # <<>> /\ log[1].ev = "scan")
    /\ (lastOp \notin {"scan", "__init__"} /\ pre.device # NoDevice) =>
          Events("scan") = {}
    /\ Cardinality(Events("scan")) <= 1

C18_Witness ==
    /\ lastOp = "set_volume"
    /\ pre.device = NoDevice
    /\ pre._client = NoClient
    /\ err = ""
    /\ log[1].ev = "scan"
    /\ device # NoDevice
    /\ Events("write") # {}

\* C19: in a command with auto_refresh enabled, nothing but the settle
\* delay lies between the write and the status read that follows it: no
\* disconnect and no connect; no connect is made after the write; the scope
\* of that read was entered on a connected handle; and power_on, power_off,
\* set_sound, set_volume and set_time, on a session that is not connected,
\* have connected once when they write.
C19_RefreshReusesConnection ==
    (lastOp \in CommandOps /\ auto_refresh) =>
        \A w \in Events("write") :
            /\ \A c \in Events("connect") : c < w
            /\ \A r \in Events("read") :
                  r > w =>
                      /\ \A i \in (w + 1)..(r - 1) : log[i].ev = "sleep"
                      /\ Len(scopes) >= 2
                      /\ scopes[Len(scopes) - 1].entry
            /\ (lastOp \notin {"set_color", "set_brightness"} /\ ~pre.connected)
                  => Cardinality(Events("connect")) = 1

C19_Witness ==
    /\ lastOp = "power_on"
    /\ auto_refresh
    /\ ~pre.connected
    /\ err = ""
    /\ Cardinality(Events("connect")) = 1
    /\ \E w \in Events("write") : \E r \in Events("read") : r > w

=============================================================================
